---- MODULE Spec2Model ----
(***************************************************************************)
(* Gesture-driven galaxy viewer: the App component (gesture state, revert  *)
(* timers) and the GalaxyCanvas component (stateRef targets, per-frame     *)
(* smoothing).                                                             *)
(*                                                                         *)
(* Numbers.  Every floating-point quantity of the source is carried as an  *)
(* integer count of 1/10000 (zoom 45 is 450000, 0.12 rad is 1200).  A      *)
(* product with a fractional constant (x * 0.04, x * 0.4) is rounded to    *)
(* the nearest unit, as IEEE arithmetic rounds to the nearest double; the  *)
(* grid is coarser than a double's but has the same shape (an increment    *)
(* below half a unit is lost).                                             *)
(*                                                                         *)
(* Time.  A timer is kept as the time left until it is due.  Time passes   *)
(* in steps of half a dwell duration (TickMs); a due timer fires and a     *)
(* queued state update is rendered before time passes again.              *)
(***************************************************************************)
EXTENDS Integers, Sequences, FiniteSets

VARIABLES
    currentGesture, \* App: useState value of the last committed render,
                    \* i.e. the gesture prop GalaxyCanvas last ran its effect for
    pending,        \* App: setCurrentGesture updates queued for the next render
    timers,         \* pending setTimeout callbacks, oldest first: time left (ms)
    s,              \* GalaxyCanvas: stateRef.current
    view,           \* what the frame handed to three.js: camera.position.z,
                    \* points.rotation.x, points.rotation.y
    lastEvent,      \* history: gesture of the newest controlGalaxy call
    nEvents,        \* history: number of controlGalaxy calls received
    nFrames,        \* history: number of animate() callbacks run
    s0,             \* history: stateRef.current as the behaviour began
    canvas,         \* GalaxyCanvas: the mount div, the three.js resources, the
                    \* resize listener, requestRef and the frames requested
    field,          \* GalaxyCanvas: the particle loop of the mount effect
    link            \* App: isLive, isLoading, error, the refs, the camera
                    \* streams, the Live sessions and the streaming intervals

vars ==
    <<currentGesture, pending, timers, s, view, lastEvent, nEvents, nFrames, s0,
      canvas, field, link>>

----------------------------------------------------------------------------
(* Bounds of the model *)

MaxEvents == 2        \* controlGalaxy calls per behaviour (Spec)
MaxCalls == 1         \* function calls carried by one server message
MaxFrames == 2        \* animate() callbacks per behaviour (Spec)
MaxZoomEvents == 15   \* controlGalaxy calls per behaviour (SpecZoom)
MaxZoomTimers == 2    \* revert timers pending at once (SpecZoom)
MaxZoomFrames == 1    \* animate() callbacks per behaviour (SpecZoom)
MaxMotionFrames == 170  \* animate() callbacks per behaviour (SpecMotion)
MaxGlideFrames == 200   \* animate() callbacks per behaviour (SpecGlide)
MaxIdleFrames == 150    \* animate() callbacks per behaviour (SpecIdle)
MaxLifeFrames == 3      \* animate() callbacks per behaviour (SpecLife)
MaxMounts == 3          \* mounts of GalaxyCanvas per behaviour (SpecLife)
MaxResizeEvents == 1    \* controlGalaxy calls per behaviour (SpecResize)
MaxCount == 12          \* particles of a field, besides the field of 100 (SpecField)
MaxBranches == 5        \* branches of a field (SpecField)
MaxConfigCount == 4     \* particles of a field (SpecConfig)
MaxSessions == 3           \* calls of startInteraction followed
MaxConfigBranches == 3  \* branches of a field (SpecConfig)

----------------------------------------------------------------------------
(* Program constants, in units of 1/10000 *)

InitZoom == 450000        \* stateRef zoom / targetZoom: 45
RestingPitch == 3000      \* 0.3
ZoomStep == 100000        \* 10
ZoomMin == 80000          \* 8
ZoomMax == 1800000        \* 180
PanStep == 1200           \* 0.12
Drift == 6                \* 0.0006
DwellDuration == 2000     \* ms (2500 in the second App instance; nothing else
                          \* of the gesture handling differs between the two)

\* the step in which time passes
TickMs == DwellDuration \div 2

\* enum GalaxyGesture
Gestures ==
    {"zoom_in", "zoom_out", "move_left", "move_right",
     "move_up", "move_down", "stop", "rotate"}

\* a gesture string the remote model may send that is no member of the enum
UnknownGesture == "wave"

\* n / d rounded to the nearest integer (d > 0)
RoundDiv(n, d) == (2 * n + d) \div (2 * d)

Max(a, b) == IF a >= b THEN a ELSE b
Min(a, b) == IF a <= b THEN a ELSE b

Last(q) == q[Len(q)]

----------------------------------------------------------------------------
(* GalaxyCanvas *)

\* x * 0.4
StopDecay(x) == RoundDiv(x * 4, 10)

\* the switch with the Math.max / Math.min clamps left out
GestureEffectNoClamp(g, st) ==
    CASE g = "zoom_in"    -> [st EXCEPT !.targetZoom = st.targetZoom - ZoomStep]
      [] g = "zoom_out"   -> [st EXCEPT !.targetZoom = st.targetZoom + ZoomStep]
      [] g = "move_left"  -> [st EXCEPT !.targetRotY = st.targetRotY - PanStep]
      [] g = "move_right" -> [st EXCEPT !.targetRotY = st.targetRotY + PanStep]
      [] g = "move_up"    -> [st EXCEPT !.targetRotX = st.targetRotX - PanStep]
      [] g = "move_down"  -> [st EXCEPT !.targetRotX = st.targetRotX + PanStep]
      [] g = "stop"       -> [st EXCEPT !.targetRotY = StopDecay(st.targetRotY),
                                        !.targetRotX = RestingPitch]
      [] OTHER            -> st

\* the switch with the rotation axes of the vertical moves mixed up
GestureEffectSwapped(g, st) ==
    CASE g = "zoom_in"    -> [st EXCEPT !.targetZoom = Max(ZoomMin, st.targetZoom - ZoomStep)]
      [] g = "zoom_out"   -> [st EXCEPT !.targetZoom = Min(ZoomMax, st.targetZoom + ZoomStep)]
      [] g = "move_left"  -> [st EXCEPT !.targetRotY = st.targetRotY - PanStep]
      [] g = "move_right" -> [st EXCEPT !.targetRotY = st.targetRotY + PanStep]
      [] g = "move_up"    -> [st EXCEPT !.targetRotY = st.targetRotY - PanStep]
      [] g = "move_down"  -> [st EXCEPT !.targetRotY = st.targetRotY + PanStep]
      [] g = "stop"       -> [st EXCEPT !.targetRotY = StopDecay(st.targetRotY),
                                        !.targetRotX = RestingPitch]
      [] OTHER            -> st

\* the switch with stop levelling the pitch to 0 instead of 0.3
GestureEffectStopLevel(g, st) ==
    CASE g = "zoom_in"    -> [st EXCEPT !.targetZoom = Max(ZoomMin, st.targetZoom - ZoomStep)]
      [] g = "zoom_out"   -> [st EXCEPT !.targetZoom = Min(ZoomMax, st.targetZoom + ZoomStep)]
      [] g = "move_left"  -> [st EXCEPT !.targetRotY = st.targetRotY - PanStep]
      [] g = "move_right" -> [st EXCEPT !.targetRotY = st.targetRotY + PanStep]
      [] g = "move_up"    -> [st EXCEPT !.targetRotX = st.targetRotX - PanStep]
      [] g = "move_down"  -> [st EXCEPT !.targetRotX = st.targetRotX + PanStep]
      [] g = "stop"       -> [st EXCEPT !.targetRotY = StopDecay(st.targetRotY),
                                        !.targetRotX = 0]
      [] OTHER            -> st

\* the switch with stop also zeroing the current yaw
GestureEffectSnapping(g, st) ==
    CASE g = "zoom_in"    -> [st EXCEPT !.targetZoom = Max(ZoomMin, st.targetZoom - ZoomStep)]
      [] g = "zoom_out"   -> [st EXCEPT !.targetZoom = Min(ZoomMax, st.targetZoom + ZoomStep)]
      [] g = "move_left"  -> [st EXCEPT !.targetRotY = st.targetRotY - PanStep]
      [] g = "move_right" -> [st EXCEPT !.targetRotY = st.targetRotY + PanStep]
      [] g = "move_up"    -> [st EXCEPT !.targetRotX = st.targetRotX - PanStep]
      [] g = "move_down"  -> [st EXCEPT !.targetRotX = st.targetRotX + PanStep]
      [] g = "stop"       -> [st EXCEPT !.targetRotY = StopDecay(st.targetRotY),
                                        !.targetRotX = RestingPitch,
                                        !.rotY = 0]
      [] OTHER            -> st

\* the switch with move_right stepping by 0.1
GestureEffectUneven(g, st) ==
    CASE g = "zoom_in"    -> [st EXCEPT !.targetZoom = Max(ZoomMin, st.targetZoom - ZoomStep)]
      [] g = "zoom_out"   -> [st EXCEPT !.targetZoom = Min(ZoomMax, st.targetZoom + ZoomStep)]
      [] g = "move_left"  -> [st EXCEPT !.targetRotY = st.targetRotY - PanStep]
      [] g = "move_right" -> [st EXCEPT !.targetRotY = st.targetRotY + 1000]
      [] g = "move_up"    -> [st EXCEPT !.targetRotX = st.targetRotX - PanStep]
      [] g = "move_down"  -> [st EXCEPT !.targetRotX = st.targetRotX + PanStep]
      [] g = "stop"       -> [st EXCEPT !.targetRotY = StopDecay(st.targetRotY),
                                        !.targetRotX = RestingPitch]
      [] OTHER            -> st

\* the switch of the [gesture] effect
GestureEffect(g, st) ==
    CASE g = "zoom_in"    -> [st EXCEPT !.targetZoom = Max(ZoomMin, st.targetZoom - ZoomStep)]
      [] g = "zoom_out"   -> [st EXCEPT !.targetZoom = Min(ZoomMax, st.targetZoom + ZoomStep)]
      [] g = "move_left"  -> [st EXCEPT !.targetRotY = st.targetRotY - PanStep]
      [] g = "move_right" -> [st EXCEPT !.targetRotY = st.targetRotY + PanStep]
      [] g = "move_up"    -> [st EXCEPT !.targetRotX = st.targetRotX - PanStep]
      [] g = "move_down"  -> [st EXCEPT !.targetRotX = st.targetRotX + PanStep]
      [] g = "stop"       -> [st EXCEPT !.targetRotY = StopDecay(st.targetRotY),
                                        !.targetRotX = RestingPitch]
      [] OTHER            -> st

\* cur -= (target - cur) * 0.04
SmoothAway(cur, target) == cur - RoundDiv((target - cur) * 4, 100)

\* cur = (target - cur) * 0.04
SmoothAssign(cur, target) == RoundDiv((target - cur) * 4, 100)

\* cur += (target - cur) * 0.004
SmoothSlow(cur, target) == cur + RoundDiv((target - cur) * 4, 1000)

\* cur += (target - cur) * 0.04
Smooth(cur, target) == cur + RoundDiv((target - cur) * 4, 100)

\* the smoothing assignments with the stop decay repeated on every frame
AdvanceDecaying(st) ==
    [st EXCEPT !.zoom = Smooth(st.zoom, st.targetZoom),
               !.rotX = Smooth(st.rotX, st.targetRotX),
               !.rotY = Smooth(st.rotY, st.targetRotY),
               !.targetRotY = StopDecay(st.targetRotY)]

\* the smoothing assignments without the one of zoom
AdvanceFrozenZoom(st) ==
    [st EXCEPT !.rotX = Smooth(st.rotX, st.targetRotX),
               !.rotY = Smooth(st.rotY, st.targetRotY)]

\* the three smoothing assignments of animate
Advance(st) ==
    [st EXCEPT !.zoom = Smooth(st.zoom, st.targetZoom),
               !.rotX = Smooth(st.rotX, st.targetRotX),
               !.rotY = Smooth(st.rotY, st.targetRotY)]

\* requestRef.current = requestAnimationFrame(animate)
Requested(c) ==
    [c EXCEPT !.requestRef = c.rafSeq + 1,
              !.scheduled = @ \cup {c.rafSeq + 1},
              !.rafSeq = @ + 1]

\* the browser takes frame request id off its list to call it
Run(c, id) == [c EXCEPT !.scheduled = @ \ {id}]

\* one animate() callback
Frame(limit) ==
    /\ nFrames < limit
    /\ \E id \in canvas.scheduled : canvas' = Requested(Run(canvas, id))
    /\ LET n == Advance(s) IN
        /\ s' = n
        /\ view' = [cameraZ |-> n.zoom,
                    rotationX |-> n.rotX,
                    rotationY |-> view.rotationY + Drift + n.rotY]
    /\ nFrames' = nFrames + 1
    /\ UNCHANGED <<currentGesture, pending, timers, lastEvent, nEvents, s0, field, link>>

FrameStep == Frame(MaxFrames)

\* window.innerWidth, window.innerHeight
Windows == {<<800, 600>>, <<1024, 768>>, <<600, 800>>}

\* the window as the application opens
OpeningWindow == <<800, 600>>

\* nothing mounted yet, nothing acquired
NoCanvas ==
    [mounted |-> FALSE, inDocument |-> FALSE, children |-> 0,
     geometries |-> 0, materials |-> 0, renderers |-> 0, listeners |-> 0,
     requestRef |-> 0, scheduled |-> {}, rafSeq |-> 0,
     aspect |-> OpeningWindow, size |-> OpeningWindow, mounts |-> 0]

\* React puts a new mount div in the document and runs the mount effect
\* with fresh refs: renderer, its canvas element appended to the div,
\* geometry, material, the first animate() and the resize listener.  c is
\* the canvas state before, of which whatever was not released remains.
MountEffect(c, w) ==
    Requested(
        [c EXCEPT !.mounted = TRUE, !.inDocument = TRUE, !.children = 1,
                  !.geometries = @ + 1, !.materials = @ + 1,
                  !.renderers = @ + 1, !.listeners = @ + 1,
                  !.aspect = w, !.size = w, !.mounts = @ + 1])

\* the cleanup without cancelAnimationFrame
CleanupNoCancel(c, ref) ==
    [c EXCEPT !.listeners = @ - 1,
              !.children = IF ref /\ c.children > 0 THEN @ - 1 ELSE @,
              !.geometries = @ - 1, !.materials = @ - 1, !.renderers = @ - 1]

\* the cleanup without removeEventListener
CleanupKeepsListener(c, ref) ==
    [c EXCEPT !.scheduled = IF c.requestRef # 0 THEN @ \ {c.requestRef} ELSE @,
              !.children = IF ref /\ c.children > 0 THEN @ - 1 ELSE @,
              !.geometries = @ - 1, !.materials = @ - 1, !.renderers = @ - 1]

\* the cleanup returned by the mount effect; ref: mountRef.current is
\* still the mount div when it runs
Cleanup(c, ref) ==
    [c EXCEPT !.listeners = @ - 1,
              !.scheduled = IF c.requestRef # 0 THEN @ \ {c.requestRef} ELSE @,
              !.children = IF ref /\ c.children > 0 THEN @ - 1 ELSE @,
              !.geometries = @ - 1, !.materials = @ - 1, !.renderers = @ - 1]

\* canvas elements in the document
LiveCanvases(c) == IF c.inDocument THEN c.children ELSE 0

----------------------------------------------------------------------------
(* App *)

\* the function calls a server message may carry
FunctionCalls(gs) ==
    [name : {"controlGalaxy"}, gesture : gs]
        \cup {[name |-> "otherTool", gesture |-> "stop"]}

RECURSIVE QueuedBy(_)
\* the setCurrentGesture(gesture) calls of the loop over functionCalls
QueuedBy(calls) ==
    IF calls = <<>> THEN <<>>
    ELSE IF Head(calls).name = "controlGalaxy"
         THEN <<[value |-> Head(calls).gesture, by |-> "event"]>> \o QueuedBy(Tail(calls))
         ELSE QueuedBy(Tail(calls))

RECURSIVE ArmedBy(_, _)
\* the setTimeout(..., dwell) calls of the loop over functionCalls
ArmedBy(calls, delay) ==
    IF calls = <<>> THEN <<>>
    ELSE IF Head(calls).name = "controlGalaxy"
         THEN <<delay>> \o ArmedBy(Tail(calls), delay)
         ELSE ArmedBy(Tail(calls), delay)

\* onmessage with a toolCall
OnMessage(calls, limit) ==
    /\ nEvents < limit
    /\ LET q == QueuedBy(calls) IN
        /\ nEvents + Len(q) <= limit
        /\ pending' = pending \o q
        /\ nEvents' = nEvents + Len(q)
        /\ lastEvent' = IF q = <<>> THEN lastEvent ELSE Last(q).value
    /\ timers' = timers \o ArmedBy(calls, DwellDuration)
    /\ UNCHANGED <<currentGesture, s, view, nFrames, s0, canvas, field, link>>

\* a timer callback that queues no update
TimerFireSilent ==
    /\ timers # <<>>
    /\ Head(timers) = 0
    /\ timers' = Tail(timers)
    /\ UNCHANGED <<currentGesture, pending, s, view, lastEvent, nEvents, nFrames, s0, canvas, field, link>>

\* the callback of setTimeout(() => setCurrentGesture(STOP), dwell)
TimerFire ==
    /\ timers # <<>>
    /\ Head(timers) = 0
    /\ timers' = Tail(timers)
    /\ pending' = Append(pending, [value |-> "stop", by |-> "timer"])
    /\ UNCHANGED <<currentGesture, s, view, lastEvent, nEvents, nFrames, s0, canvas, field, link>>

\* the state App renders with: queued plain-value updates, the last one wins
NextGesture(q) == Last(q).value

\* a render whose effect runs whether or not the gesture prop changed
RenderAlways ==
    /\ pending # <<>>
    /\ currentGesture' = NextGesture(pending)
    /\ s' = GestureEffect(NextGesture(pending), s)
    /\ pending' = <<>>
    /\ UNCHANGED <<timers, view, lastEvent, nEvents, nFrames, s0, canvas, field, link>>

\* React renders App with the queued updates; GalaxyCanvas runs its
\* [gesture] effect when the prop differs from the previous render's
Render ==
    /\ pending # <<>>
    /\ LET g == NextGesture(pending) IN
        /\ currentGesture' = g
        /\ s' = IF g # currentGesture THEN GestureEffect(g, s) ELSE s
    /\ pending' = <<>>
    /\ UNCHANGED <<timers, view, lastEvent, nEvents, nFrames, s0, canvas, field, link>>

\* half a dwell duration passes
Tick ==
    /\ pending = <<>>
    /\ timers # <<>>
    /\ Head(timers) > 0
    /\ timers' = [i \in 1..Len(timers) |-> Max(0, timers[i] - TickMs)]
    /\ UNCHANGED <<currentGesture, pending, s, view, lastEvent, nEvents, nFrames, s0, canvas, field, link>>

----------------------------------------------------------------------------
(* The running application *)

\* stateRef as constructed
InitialState ==
    [zoom |-> InitZoom, rotX |-> RestingPitch, rotY |-> 0,
     targetZoom |-> InitZoom, targetRotX |-> RestingPitch, targetRotY |-> 0]

\* The particle loop runs inside the mount effect and nothing touches its
\* arrays afterwards: the running application does not carry them.
NoField == [count |-> 0, i |-> 0]

\* App as constructed: the useState values and the refs; no camera stream,
\* no Live session, no interval, no timer of resetSystem.  Streams,
\* sessions and intervals are numbered in the order they are made; an
\* interval carries the number of the session whose onopen made it.
InitialLink ==
    [mounted |-> TRUE, isLive |-> FALSE, isLoading |-> FALSE, error |-> FALSE,
     srcObject |-> 0, sessionRef |-> 0, intervalRef |-> 0,
     starts |-> 0, awaiting |-> 0, restarts |-> 0,
     acquired |-> 0, live |-> {},
     sessions |-> [k \in 1..MaxSessions |-> "none"], connected |-> 0,
     intervals |-> {}, lastOpened |-> 0, cleanups |-> 0]

\* After mount: animate() has run once on the constructed stateRef and the
\* [gesture] effect has run for the initial gesture, stop.
Init ==
    /\ currentGesture = "stop"
    /\ pending = <<>>
    /\ timers = <<>>
    /\ s = GestureEffect("stop", Advance(InitialState))
    /\ view = [cameraZ |-> Advance(InitialState).zoom,
               rotationX |-> Advance(InitialState).rotX,
               rotationY |-> Drift + Advance(InitialState).rotY]
    /\ lastEvent = "none"
    /\ nEvents = 0
    /\ nFrames = 0
    /\ s0 = s
    /\ canvas = MountEffect(NoCanvas, OpeningWindow)
    /\ field = NoField
    /\ link = InitialLink

Inputs == Gestures \cup {UnknownGesture}

Messages(gs) == UNION {[1..n -> FunctionCalls(gs)] : n \in 1..MaxCalls}

Message == \E calls \in Messages(Inputs) : OnMessage(calls, MaxEvents)

Next == Message \/ TimerFire \/ Render \/ Tick \/ FrameStep

Spec == Init /\ [][Next]_vars

----------------------------------------------------------------------------
(* Zooming only: the same application driven by zoom gestures alone, far   *)
(* enough to reach both ends of the zoom range.  An event arrives once the *)
(* previous update is rendered and while fewer than MaxZoomTimers revert   *)
(* timers are pending.                                                     *)

Call(g) == [name |-> "controlGalaxy", gesture |-> g]

ZoomEvent ==
    /\ pending = <<>>
    /\ Len(timers) < MaxZoomTimers
    /\ \E g \in {"zoom_in", "zoom_out"} : OnMessage(<<Call(g)>>, MaxZoomEvents)

ZoomFrame == Frame(MaxZoomFrames)

NextZoom == ZoomEvent \/ TimerFire \/ Render \/ Tick \/ ZoomFrame

SpecZoom == Init /\ [][NextZoom]_vars

----------------------------------------------------------------------------
(* A burst of fifty zoom_in events and nothing else: each is rendered       *)
(* before the next arrives, and all arrive before the first revert timer   *)
(* comes due.                                                              *)

ZoomInEvent ==
    /\ pending = <<>>
    /\ OnMessage(<<Call("zoom_in")>>, 50)

\* time passes, short of the first timer's deadline
ZoomInTick ==
    /\ timers # <<>>
    /\ Head(timers) > TickMs
    /\ Tick

NextZoomIn == ZoomInEvent \/ Render \/ ZoomInTick

SpecZoomIn == Init /\ [][NextZoomIn]_vars

----------------------------------------------------------------------------
(* Smoothing alone: frames run with the targets held constant, from a      *)
(* current/target pair per field.  The pairs are values the running        *)
(* application passes through: targets and settled currents on the         *)
(* gesture grid (45, 35, the zoom limits; 0.3 +- 0.12; 0, -0.12, -0.048),  *)
(* and currents a few units short of the target, where the rounded         *)
(* increment reaches zero.                                                 *)

ZoomPairs ==
    {<<450000, 450000>>, <<450000, 350000>>, <<350000, 450000>>,
     <<80000, 1800000>>, <<1800000, 80000>>,
     <<80013, 80000>>, <<1799987, 1800000>>, <<350012, 350000>>}

PitchPairs ==
    {<<3000, 3000>>, <<3000, 1800>>, <<1800, 3000>>, <<3000, 4200>>, <<1813, 1800>>}

YawPairs ==
    {<<0, 0>>, <<0, -1200>>, <<-1200, -480>>, <<0, 1200>>, <<-13, 0>>}

InitMotion ==
    /\ currentGesture = "stop"
    /\ pending = <<>>
    /\ timers = <<>>
    /\ \E z \in ZoomPairs, p \in PitchPairs, y \in YawPairs :
        /\ s = [zoom |-> z[1], targetZoom |-> z[2],
                rotX |-> p[1], targetRotX |-> p[2],
                rotY |-> y[1], targetRotY |-> y[2]]
        /\ view = [cameraZ |-> z[1], rotationX |-> p[1], rotationY |-> Drift + y[1]]
    /\ lastEvent = "none"
    /\ nEvents = 0
    /\ nFrames = 0
    /\ s0 = s
    /\ canvas = MountEffect(NoCanvas, OpeningWindow)
    /\ field = NoField
    /\ link = InitialLink

MotionFrame == Frame(MaxMotionFrames)

NextMotion == MotionFrame

SpecMotion == InitMotion /\ [][NextMotion]_vars

----------------------------------------------------------------------------
(* One zoom_in and the glide that follows: a single controlGalaxy call,    *)
(* its revert timer, and frames.  requestAnimationFrame re-arms animate on *)
(* every frame (line 101) and React renders every queued update, so both   *)
(* are taken as long as they are enabled.  At most MaxFrames frames run    *)
(* before the gesture is applied, the rest after it.                       *)

GlideEvent ==
    /\ pending = <<>>
    /\ OnMessage(<<Call("zoom_in")>>, 1)

GlideFrame ==
    IF nEvents = 0 \/ pending # <<>>
    THEN Frame(MaxFrames)
    ELSE Frame(MaxGlideFrames)

NextGlide == GlideEvent \/ TimerFire \/ Render \/ Tick \/ GlideFrame

SpecGlide ==
    Init /\ [][NextGlide]_vars /\ WF_vars(GlideFrame) /\ WF_vars(Render)

----------------------------------------------------------------------------
(* No gesture event ever arrives: the mounted application and its frames.  *)

IdleFrame == Frame(MaxIdleFrames)

NextIdle == IdleFrame

SpecIdle == Init /\ [][NextIdle]_vars

----------------------------------------------------------------------------
(* The session alone: events, revert timers and renders, without frames.   *)
(* A timer set with setTimeout is never cleared, time passes, and React    *)
(* renders every queued update: each is taken as long as it is enabled.    *)

NextRevert == Message \/ TimerFire \/ Render \/ Tick

SpecRevert ==
    /\ Init /\ [][NextRevert]_vars
    /\ WF_vars(TimerFire) /\ WF_vars(Render) /\ WF_vars(Tick)

----------------------------------------------------------------------------
(* The life of the component: frames, resizes, unmounts and mounts, from   *)
(* the current/target pairs of the smoothing, so that a teardown also      *)
(* comes while the view is gliding.                                        *)

\* a resize handler that also snaps the zoom to its target
ResizeSnapping ==
    /\ canvas.listeners > 0
    /\ \E w \in Windows : canvas' = [canvas EXCEPT !.aspect = w, !.size = w]
    /\ s' = [s EXCEPT !.zoom = s.targetZoom]
    /\ UNCHANGED <<currentGesture, pending, timers, view, lastEvent, nEvents,
                   nFrames, s0, field, link>>

\* the window fires resize: handleResize sets the camera's aspect (and
\* with it the projection) and the renderer's size
Resize ==
    /\ canvas.listeners > 0
    /\ \E w \in Windows : canvas' = [canvas EXCEPT !.aspect = w, !.size = w]
    /\ UNCHANGED <<currentGesture, pending, timers, s, view, lastEvent, nEvents,
                   nFrames, s0, field, link>>

\* React unmounts the component: the mount div leaves the document and
\* the cleanup runs.  Whether mountRef.current still holds the div when
\* the cleanup runs depends on the React version: either.
Unmount ==
    /\ canvas.mounted
    /\ \E ref \in BOOLEAN :
        canvas' = [Cleanup(canvas, ref) EXCEPT !.mounted = FALSE,
                                              !.inDocument = FALSE]
    /\ UNCHANGED <<currentGesture, pending, timers, s, view, lastEvent, nEvents,
                   nFrames, s0, field, link>>

\* React mounts the component anew: fresh refs, the mount effect with its
\* first animate(), and the [gesture] effect for the current gesture
Mount ==
    /\ ~canvas.mounted
    /\ canvas.mounts < MaxMounts
    /\ \E w \in Windows : canvas' = MountEffect(canvas, w)
    /\ s' = GestureEffect(currentGesture, Advance(InitialState))
    /\ view' = [cameraZ |-> Advance(InitialState).zoom,
                rotationX |-> Advance(InitialState).rotX,
                rotationY |-> Drift + Advance(InitialState).rotY]
    /\ UNCHANGED <<currentGesture, pending, timers, lastEvent, nEvents, nFrames, s0, field, link>>

LifeFrame == Frame(MaxLifeFrames)

NextLife == LifeFrame \/ Resize \/ Unmount \/ Mount

SpecLife == InitMotion /\ [][NextLife]_vars

----------------------------------------------------------------------------
(* Resizes during a gesture: one controlGalaxy call of any gesture, its    *)
(* timer, frames, and resizes of the window.                               *)

ResizeEvent ==
    /\ pending = <<>>
    /\ \E g \in Gestures : OnMessage(<<Call(g)>>, MaxResizeEvents)

NextResize == ResizeEvent \/ TimerFire \/ Render \/ Tick \/ FrameStep \/ Resize

SpecResize == Init /\ [][NextResize]_vars

----------------------------------------------------------------------------
(* The particle field.  Lengths are carried in units of 1/100 (radius 35   *)
(* is 3500), angles and the values of sine and cosine in units of 1/10000, *)
(* a Math.random() draw in units of 1/1000 (0 .. 999), colour components   *)
(* in units of 1/10000.                                                    *)

FieldRadius == 3500       \* params.radius: 35
Branches == 5             \* params.branches
Spin == 18000             \* params.spin: 1.8
Randomness == 4000        \* params.randomness: 0.4
RandomnessPower == 3      \* params.randomnessPower
YSquash == 3500           \* 0.35
TwoPi == 62832            \* Math.PI * 2
Pi == TwoPi \div 2
HalfPi == TwoPi \div 4

\* new THREE.Color('#ffbb33'), new THREE.Color('#3399ff'): r, g, b
InnerColor == <<10000, 7333, 2000>>
OuterColor == <<2000, 6000, 10000>>

\* sine of x in [0, pi/2], by its series to the ninth power
SinQ(x) ==
    LET x2 == (x * x) \div 10000
        t4 == 10000 - x2 \div 72
        t3 == 10000 - (x2 * t4) \div 420000
        t2 == 10000 - (x2 * t3) \div 200000
        t1 == 10000 - (x2 * t2) \div 60000
    IN  RoundDiv(x * t1, 10000)

\* Math.sin
Sin(a) ==
    LET m == a % TwoPi IN
        IF m <= HalfPi THEN SinQ(m)
        ELSE IF m <= Pi THEN SinQ(Pi - m)
        ELSE IF m <= Pi + HalfPi THEN -SinQ(m - Pi)
        ELSE -SinQ(TwoPi - m)

\* Math.cos
Cos(a) == Sin(a + HalfPi)

RECURSIVE Pow(_, _)
\* Math.pow(u, n) of a draw u
Pow(u, n) == IF n = 0 THEN 1000 ELSE RoundDiv(u * Pow(u, n - 1), 1000)

\* Math.random() < 0.5 ? 1 : -1
Sign(u) == IF u < 500 THEN 1 ELSE -1

\* i / branches rounded down, taken modulo branches
BranchOfBlock(i, branches) == (i \div branches) % branches

\* i % params.branches
BranchOf(i, branches) == i % branches

\* Math.pow(u, power) * sign * radius, without the randomness factor
OffsetUnscaled(u, us, r) ==
    Sign(us) * RoundDiv(Pow(u, RandomnessPower) * r, 1000)

\* Math.pow(u, power) * sign * params.randomness * radius
Offset(u, us, r) ==
    Sign(us) * RoundDiv(RoundDiv(Pow(u, RandomnessPower) * Randomness, 10000) * r, 1000)

\* radius / 10
LerpFactorRaw(r, radius) == RoundDiv(r * 10000, 1000)

\* radius / params.radius
LerpFactor(r, radius) == RoundDiv(r * 10000, radius)

\* Color.lerp: each component moves by alpha of the way to the other colour
Lerp(c, o, alpha) == [k \in 1..3 |-> c[k] + RoundDiv((o[k] - c[k]) * alpha, 10000)]

\* the body of the particle loop for index i; d: the seven draws of
\* Math.random() in the order of the source
Particle(i, branches, d) ==
    LET radius == RoundDiv(d[1] * FieldRadius, 1000)
        spinAngle == RoundDiv(radius * Spin, 100)
        branchAngle == RoundDiv(BranchOf(i, branches) * TwoPi, branches)
        randomX == Offset(d[2], d[3], radius)
        randomY == Offset(d[4], d[5], radius)
        randomZ == Offset(d[6], d[7], radius)
    IN  [radius |-> radius,
         branch |-> BranchOf(i, branches),
         x |-> RoundDiv(Cos(branchAngle + spinAngle) * radius, 10000) + randomX,
         y |-> RoundDiv(randomY * YSquash, 10000),
         z |-> RoundDiv(Sin(branchAngle + spinAngle) * radius, 10000) + randomZ,
         color |-> Lerp(InnerColor, OuterColor, LerpFactor(radius, FieldRadius))]

\* the arrays as allocated (a Float32Array is zero-filled), before the loop
NewField(count, branches) ==
    [count |-> count, branches |-> branches, i |-> 0,
     posWrites |-> [k \in 0..(3 * count - 1) |-> 0],
     colWrites |-> [k \in 0..(3 * count - 1) |-> 0],
     perBranch |-> [b \in 0..(branches - 1) |-> 0],
     particle |-> [radius |-> 0, branch |-> 0, x |-> 0, y |-> 0, z |-> 0,
                   color |-> <<0, 0, 0>>]]

\* the count of writes per array slot after the three writes of index i
Written(writes, i) ==
    [k \in DOMAIN writes |->
        IF k \in {3 * i, 3 * i + 1, 3 * i + 2} THEN writes[k] + 1 ELSE writes[k]]

\* One pass of the particle loop.  field keeps, of the arrays, how often
\* each slot was written and the particle written last; perBranch counts
\* the particles per branch.
Generate(draws) ==
    /\ field.i < field.count
    /\ \E d \in draws :
        LET p == Particle(field.i, field.branches, d) IN
            field' = [field EXCEPT !.i = @ + 1,
                                   !.posWrites = Written(@, field.i),
                                   !.colWrites = Written(@, field.i),
                                   !.perBranch[p.branch] = @ + 1,
                                   !.particle = p]
    /\ UNCHANGED <<currentGesture, pending, timers, s, view, lastEvent, nEvents,
                   nFrames, s0, canvas, link>>

\* the mount effect as it reaches the loop
InitField(counts, branches) ==
    /\ currentGesture = "stop"
    /\ pending = <<>>
    /\ timers = <<>>
    /\ s = InitialState
    /\ view = [cameraZ |-> 0, rotationX |-> 0, rotationY |-> 0]
    /\ lastEvent = "none"
    /\ nEvents = 0
    /\ nFrames = 0
    /\ s0 = s
    /\ canvas = NoCanvas
    /\ \E c \in counts, b \in branches : field = NewField(c, b)
    /\ link = InitialLink

\* draws for fields of many particles: the ends and the middle of the
\* radius, every offset none or (nearly) full, all to one side
CoarseDraws ==
    {<<u, m, sg, m, sg, m, sg>> : u \in {0, 500, 999}, m \in {0, 999}, sg \in {0, 500}}

FieldCounts == (1..MaxCount) \cup {100}

GenerateField == Generate(CoarseDraws)

NextField == GenerateField

SpecField == InitField(FieldCounts, 1..MaxBranches) /\ [][NextField]_vars

\* draws for one particle per branch: the offsets of the three axes and
\* their signs drawn independently; 985 puts the branch, at radius 34.48,
\* on a diagonal of the x-z plane
FineDraws ==
    {<<u, mx, sx, my, sy, mz, sz>> :
        u \in {0, 500, 985, 999}, mx \in {0, 500, 999}, sx \in {0, 999},
        my \in {999}, sy \in {0, 999}, mz \in {0, 500, 999}, sz \in {0, 999}}

GenerateScattered == Generate(FineDraws)

NextScatter == GenerateScattered

SpecScatter == InitField({Branches}, {Branches}) /\ [][NextScatter]_vars

----------------------------------------------------------------------------
(* The particle loop for any particle count and number of branches, the    *)
(* non-positive ones included.  The source checks neither: a negative      *)
(* count makes new Float32Array throw a RangeError (failed), a count of 0  *)
(* skips the loop, and with 0 branches i % 0 is NaN, which reaches x and z *)
(* through the branch angle.  The radius stays the literal of the source.  *)

\* the arrays as allocated for count and branches of any sign
ConfigField(count, branches) ==
    [count |-> count, branches |-> branches, i |-> 0,
     posWrites |-> [k \in 0..(3 * count - 1) |-> 0],
     colWrites |-> [k \in 0..(3 * count - 1) |-> 0],
     perBranch |-> [b \in 0..(branches - 1) |-> 0],
     particle |-> [radius |-> 0, branch |-> 0, x |-> 0, y |-> 0, z |-> 0,
                   color |-> <<0, 0, 0>>],
     failed |-> count < 0]

\* the body of the particle loop when params.branches may be 0
ParticleOrNaN(i, branches, d) ==
    IF branches = 0
    THEN [Particle(i, 1, d) EXCEPT !.branch = "NaN", !.x = "NaN", !.z = "NaN"]
    ELSE Particle(i, branches, d)

\* one pass of the particle loop, for any count and number of branches
GenerateUnchecked ==
    /\ ~field.failed
    /\ field.i < field.count
    /\ \E d \in CoarseDraws :
        LET p == ParticleOrNaN(field.i, field.branches, d) IN
            field' = [field EXCEPT
                        !.i = @ + 1,
                        !.posWrites = Written(@, field.i),
                        !.colWrites = Written(@, field.i),
                        !.perBranch = IF field.branches = 0 THEN @
                                      ELSE [@ EXCEPT ![p.branch] = @ + 1],
                        !.particle = p]
    /\ UNCHANGED <<currentGesture, pending, timers, s, view, lastEvent, nEvents,
                   nFrames, s0, canvas, link>>

InitConfig ==
    /\ currentGesture = "stop"
    /\ pending = <<>>
    /\ timers = <<>>
    /\ s = InitialState
    /\ view = [cameraZ |-> 0, rotationX |-> 0, rotationY |-> 0]
    /\ lastEvent = "none"
    /\ nEvents = 0
    /\ nFrames = 0
    /\ s0 = s
    /\ canvas = NoCanvas
    /\ \E c \in (-1)..MaxConfigCount, b \in 0..MaxConfigBranches :
        field = ConfigField(c, b)
    /\ link = InitialLink

NextConfig == GenerateUnchecked

SpecConfig == InitConfig /\ [][NextConfig]_vars

----------------------------------------------------------------------------
(* App: the camera and the Live session *)

\* the <video> element exists, and videoRef.current holds it, while the
\* committed render has isLive true
VideoRendered(l) == l.mounted /\ l.isLive

\* the state setters do nothing once the component is unmounted; the
\* <video> element of a render with isLive false is gone with its srcObject
SetState(l, live, loading, err) ==
    IF l.mounted
    THEN [l EXCEPT !.isLive = live, !.isLoading = loading, !.error = err,
                   !.srcObject = IF live THEN @ ELSE 0]
    ELSE l

\* cleanup(); video tells whether videoRef.current holds the element
AppCleanup(l, video) ==
    [l EXCEPT !.intervals = @ \ {l.intervalRef},
              !.live = IF video /\ l.srcObject # 0 THEN @ \ {l.srcObject} ELSE @,
              !.srcObject = IF video THEN 0 ELSE @,
              !.cleanups = @ + 1]

\* startInteraction up to its await: setIsLoading(true), setError(null),
\* getUserMedia asked
BeginStart(l) ==
    [SetState(l, l.isLive, TRUE, FALSE) EXCEPT !.starts = @ + 1, !.awaiting = @ + 1]

\* the user presses INITIATE NEURAL LINK: rendered while isLive is false,
\* disabled while isLoading, covered by the error overlay
Click ==
    /\ link.mounted /\ ~link.isLive /\ ~link.isLoading /\ ~link.error
    /\ link.starts < MaxSessions
    /\ link' = BeginStart(link)
    /\ UNCHANGED <<currentGesture, pending, timers, s, view, lastEvent, nEvents,
                   nFrames, s0, canvas, field>>

\* the user presses REBOOT NEURAL CORE of the error overlay
ResetSystem ==
    /\ link.mounted /\ link.error
    /\ link' = [SetState(AppCleanup(link, VideoRendered(link)), FALSE, FALSE, FALSE)
                    EXCEPT !.restarts = @ + 1]
    /\ pending' = Append(pending, [value |-> "stop", by |-> "reset"])
    /\ UNCHANGED <<currentGesture, timers, s, view, lastEvent, nEvents,
                   nFrames, s0, canvas, field>>

\* the 100 ms timer of resetSystem calls startInteraction
RestartTimer ==
    /\ link.restarts > 0
    /\ link.starts < MaxSessions
    /\ link' = [BeginStart(link) EXCEPT !.restarts = @ - 1]
    /\ UNCHANGED <<currentGesture, pending, timers, s, view, lastEvent, nEvents,
                   nFrames, s0, canvas, field>>

\* getUserMedia resolves: the stream goes to the video element if there is
\* one, the session is connected and kept in sessionRef
GotStream ==
    /\ link.awaiting > 0
    /\ link' = [link EXCEPT
                    !.awaiting = @ - 1,
                    !.acquired = @ + 1,
                    !.live = @ \cup {link.acquired + 1},
                    !.srcObject = IF VideoRendered(link) THEN link.acquired + 1 ELSE @,
                    !.connected = @ + 1,
                    !.sessions[link.connected + 1] = "connecting",
                    !.sessionRef = link.connected + 1]
    /\ UNCHANGED <<currentGesture, pending, timers, s, view, lastEvent, nEvents,
                   nFrames, s0, canvas, field>>

\* getUserMedia rejects: the catch block
Denied ==
    /\ link.awaiting > 0
    /\ link' = [SetState(link, link.isLive, FALSE, TRUE) EXCEPT !.awaiting = @ - 1]
    /\ UNCHANGED <<currentGesture, pending, timers, s, view, lastEvent, nEvents,
                   nFrames, s0, canvas, field>>

\* onopen of session k, with startFrameStreaming
OnOpen(k) ==
    /\ link.sessions[k] = "connecting"
    /\ link' = [SetState(link, TRUE, FALSE, link.error) EXCEPT
                    !.sessions[k] = "open",
                    !.intervalRef = k,
                    !.intervals = @ \cup {k},
                    !.lastOpened = k]
    /\ UNCHANGED <<currentGesture, pending, timers, s, view, lastEvent, nEvents,
                   nFrames, s0, canvas, field>>

\* onerror of session k: isLive is left as it is
OnError(k) ==
    /\ link.sessions[k] \in {"connecting", "open"}
    /\ link' = [AppCleanup(SetState(link, link.isLive, FALSE, TRUE), VideoRendered(link))
                    EXCEPT !.sessions[k] = "errored"]
    /\ UNCHANGED <<currentGesture, pending, timers, s, view, lastEvent, nEvents,
                   nFrames, s0, canvas, field>>

\* onclose of session k: cleanup() runs before the render that takes the
\* video element away
OnClose(k) ==
    /\ link.sessions[k] \in {"open", "errored"}
    /\ link' = [SetState(AppCleanup(link, VideoRendered(link)),
                         FALSE, link.isLoading, link.error)
                    EXCEPT !.sessions[k] = "closed"]
    /\ UNCHANGED <<currentGesture, pending, timers, s, view, lastEvent, nEvents,
                   nFrames, s0, canvas, field>>

\* React unmounts App, and GalaxyCanvas with it: the cleanup of the empty
\* effect runs; whether the refs still hold their elements depends on the
\* React version: either
AppUnmount ==
    /\ link.mounted
    /\ \E ref \in BOOLEAN :
        /\ link' = [AppCleanup(link, ref /\ VideoRendered(link)) EXCEPT
                        !.mounted = FALSE, !.srcObject = 0]
        /\ canvas' = [Cleanup(canvas, ref) EXCEPT !.mounted = FALSE,
                                                  !.inDocument = FALSE]
    /\ UNCHANGED <<currentGesture, pending, timers, s, view, lastEvent, nEvents,
                   nFrames, s0, field>>

NextLink ==
    \/ Click
    \/ ResetSystem
    \/ RestartTimer
    \/ GotStream
    \/ Denied
    \/ \E k \in 1..MaxSessions : OnOpen(k)
    \/ \E k \in 1..MaxSessions : OnError(k)
    \/ \E k \in 1..MaxSessions : OnClose(k)
    \/ AppUnmount
    \/ Render

SpecLink == Init /\ [][NextLink]_vars

----------------------------------------------------------------------------
(* The claims *)

Abs(x) == IF x < 0 THEN -x ELSE x

\* this step is a render of the queued updates
IsRender == pending # <<>> /\ pending' = <<>>

\* this step is a render that runs the [gesture] effect
IsApplied == IsRender /\ currentGesture' # currentGesture

\* this step is an animate() callback
IsFrame == nFrames' = nFrames + 1

\* C1 (as claimed): when the only queued update is an inbound zoom_in or
\* move_left event, the render that consumes it lowers targetZoom by 10
\* (clamped at 8), respectively targetYaw by 0.12, also when that gesture is
\* the one already active.
C1_Claim ==
    [][(IsRender /\ Len(pending) = 1 /\ pending[1].by = "event") =>
        /\ pending[1].value = "zoom_in" =>
              s'.targetZoom = Max(ZoomMin, s.targetZoom - ZoomStep)
        /\ pending[1].value = "move_left" =>
              s'.targetRotY = s.targetRotY - PanStep]_vars

\* C2 (as claimed): while the revert timer of the newest event has time
\* left, and every queued update is rendered, the session is active with
\* the newest gesture: no earlier timer has put it to stop.
C2_Claim ==
    (/\ lastEvent \in Gestures \ {"stop"}
     /\ pending = <<>>
     /\ timers # <<>>
     /\ Last(timers) > 0)
        => currentGesture = lastEvent

\* C3: in every reachable state targetZoom and the current zoom lie in
\* [8, 180].
C3_ZoomInRange ==
    /\ ZoomMin <= s.targetZoom /\ s.targetZoom <= ZoomMax
    /\ ZoomMin <= s.zoom /\ s.zoom <= ZoomMax

\* the target was clamped at the lower limit and a frame has run since
C3_Witness ==
    /\ s.targetZoom = ZoomMin
    /\ s.zoom = Smooth(InitZoom, ZoomMin)

\* C4 (as claimed): targetZoom is never below 8, and once fifty zoom_in
\* events have been consumed it is exactly 8.
C4_Claim ==
    /\ s.targetZoom >= ZoomMin
    /\ (nEvents = 50 /\ pending = <<>>) => s.targetZoom = ZoomMin

\* C5: after a single move_left from the initial state, the session is
\* move_left with targetYaw -0.12 while the revert timer is pending, and
\* once the timer has fired and the update is rendered the session is stop,
\* targetPitch is 0.3 and targetYaw is 0.4 * (-0.12), whatever frames run.
C5_DwellRevert ==
    (nEvents = 1 /\ lastEvent = "move_left" /\ pending = <<>>) =>
        /\ timers # <<>> =>
              /\ currentGesture = "move_left"
              /\ s.targetRotY = 0 - PanStep
        /\ timers = <<>> =>
              /\ currentGesture = "stop"
              /\ s.targetRotX = RestingPitch
              /\ 10 * s.targetRotY = 4 * (0 - PanStep)

\* the revert has been applied and a frame has run after it
C5_Witness ==
    /\ nEvents = 1 /\ lastEvent = "move_left" /\ pending = <<>> /\ timers = <<>>
    /\ currentGesture = "stop"
    /\ s.rotY < 0
    /\ s.rotY = Smooth(0, s.targetRotY)

\* C6 (as claimed): the render that consumes an inbound stop event
\* multiplies targetYaw by 0.4, sets targetPitch to 0.3, leaves the session
\* in stop and leaves no revert timer pending.
C6_Claim ==
    [][(IsRender /\ Last(pending) = [value |-> "stop", by |-> "event"]) =>
        /\ s'.targetRotY = RoundDiv(4 * s.targetRotY, 10)
        /\ s'.targetRotX = RestingPitch
        /\ currentGesture' = "stop"
        /\ timers' = <<>>]_vars

\* C7 (as claimed): a message whose one controlGalaxy call carries an
\* out-of-enum gesture arms no timer and changes neither the motion state
\* nor the active gesture, and neither does the render that follows it.
C7_Claim ==
    [][/\ (nEvents' = nEvents + 1 /\ lastEvent' = UnknownGesture) =>
              /\ timers' = timers
              /\ s' = s
              /\ currentGesture' = currentGesture
       /\ (IsRender /\ Last(pending).value = UnknownGesture) =>
              /\ s' = s
              /\ currentGesture' = currentGesture]_vars

\* C8: a render that runs the gesture effect changes the targets as the
\* mapping table says and nothing else of the motion state.
C8_MappingTable ==
    [][IsApplied =>
        LET g == currentGesture'
            dZoom == s'.targetZoom - s.targetZoom
            dPitch == s'.targetRotX - s.targetRotX
            dYaw == s'.targetRotY - s.targetRotY
        IN  /\ s'.zoom = s.zoom /\ s'.rotX = s.rotX /\ s'.rotY = s.rotY
            /\ view' = view
            /\ g = "zoom_in" =>
                  /\ s'.targetZoom =
                        IF s.targetZoom - 100000 < 80000 THEN 80000
                        ELSE s.targetZoom - 100000
                  /\ dPitch = 0 /\ dYaw = 0
            /\ g = "zoom_out" =>
                  /\ s'.targetZoom =
                        IF s.targetZoom + 100000 > 1800000 THEN 1800000
                        ELSE s.targetZoom + 100000
                  /\ dPitch = 0 /\ dYaw = 0
            /\ g = "move_left" => dYaw = -1200 /\ dPitch = 0 /\ dZoom = 0
            /\ g = "move_right" => dYaw = 1200 /\ dPitch = 0 /\ dZoom = 0
            /\ g = "move_up" => dPitch = -1200 /\ dYaw = 0 /\ dZoom = 0
            /\ g = "move_down" => dPitch = 1200 /\ dYaw = 0 /\ dZoom = 0
            /\ g = "stop" =>
                  /\ s'.targetRotX = 3000
                  /\ Abs(10 * s'.targetRotY - 4 * s.targetRotY) <= 5
                  /\ dZoom = 0
            /\ g = "rotate" => dZoom = 0 /\ dPitch = 0 /\ dYaw = 0]_vars

\* a move_up has been applied on top of a zoom_out
C8_Witness ==
    /\ currentGesture = "move_up"
    /\ s.targetRotX = RestingPitch - PanStep
    /\ s.targetZoom = InitZoom + ZoomStep

\* C9: with the targets held constant, a frame moves each current value
\* toward its target, never past it, and never increases the distance.
Toward(cur, next, target) ==
    /\ cur < target => (cur <= next /\ next <= target)
    /\ cur > target => (target <= next /\ next <= cur)
    /\ Abs(target - next) <= Abs(target - cur)

C9_NoOvershoot ==
    [][IsFrame =>
        /\ Toward(s.zoom, s'.zoom, s.targetZoom)
        /\ Toward(s.rotX, s'.rotX, s.targetRotX)
        /\ Toward(s.rotY, s'.rotY, s.targetRotY)]_vars

\* frames have moved zoom up and pitch down, neither has arrived
C9_Witness ==
    /\ nFrames >= 2
    /\ 80000 < s.zoom /\ s.zoom < s.targetZoom
    /\ 3000 > s.rotX /\ s.rotX > s.targetRotX

\* C10: a frame that starts with current equal to target for zoom, pitch
\* and yaw leaves the three current values as they are.
C10_FixedPoint ==
    [][(/\ IsFrame
        /\ s.zoom = s.targetZoom
        /\ s.rotX = s.targetRotX
        /\ s.rotY = s.targetRotY) =>
            (s'.zoom = s.zoom /\ s'.rotX = s.rotX /\ s'.rotY = s.rotY)]_vars

\* several frames have run with current equal to target throughout
C10_Witness ==
    /\ nFrames >= 3
    /\ s.zoom = s.targetZoom /\ s.zoom = InitZoom
    /\ s.rotX = s.targetRotX /\ s.rotX = RestingPitch
    /\ s.rotY = s.targetRotY /\ s.rotY = 0
    /\ view.rotationY = Drift + nFrames * Drift

\* C11 (as claimed): after 170 frames with the target held constant the
\* current zoom is within 0.1% of the target, i.e. no further from it than
\* a thousandth of the target's value, whatever the start and the target.
C11_Claim ==
    nFrames >= 170 => Abs(s.targetZoom - s.zoom) * 1000 <= s.targetZoom

\* C11 (amended): after 170 frames with the target held constant the
\* distance left between the current zoom and the target is at most 0.1%
\* of the distance between the start value and the target, up to the
\* rounding of the arithmetic (12 units, under which an increment rounds
\* to zero).
C11_Converged ==
    nFrames >= 170 =>
        Abs(s.targetZoom - s.zoom) <= Abs(s.targetZoom - s0.zoom) \div 1000 + 12

C11_Witness ==
    /\ nFrames = 170
    /\ s0.zoom = ZoomMax
    /\ s.targetZoom = ZoomMin
    /\ s.zoom > s.targetZoom + 12

\* C12: from zoom 45, pitch 0.3, yaw 0, once a single zoom_in has been
\* applied, the target zoom is 35 and stays 35, and with frames continuing
\* the current zoom eventually is within 0.01 of 35 and stays there.
C12_Settles ==
    (nEvents = 1 /\ pending = <<>>)
        ~> [](/\ s.targetZoom = InitZoom - ZoomStep
              /\ Abs(s.zoom - (InitZoom - ZoomStep)) <= 100)

C12_Witness ==
    /\ nEvents = 1
    /\ currentGesture = "stop"
    /\ timers = <<>>
    /\ s.targetZoom = 350000
    /\ s.zoom # 350000
    /\ Abs(s.zoom - 350000) <= 100

\* C13: while no gesture event arrives the session stays idle (stop), the
\* targets stay at zoom 45, pitch 0.3, yaw 0 (the stop effect run at mount
\* does not change them), the current values equal the targets, and every
\* frame adds exactly the drift 0.0006 to the object's yaw: after the
\* frame of the mount and nFrames more it is (nFrames + 1) * 0.0006.
C13_Idle ==
    /\ currentGesture = "stop"
    /\ pending = <<>>
    /\ s = InitialState
    /\ s.zoom = s.targetZoom /\ s.rotX = s.targetRotX /\ s.rotY = s.targetRotY
    /\ view.cameraZ = InitZoom
    /\ view.rotationX = RestingPitch
    /\ view.rotationY = (nFrames + 1) * Drift

C13_Witness ==
    /\ nFrames = 100
    /\ currentGesture = "stop"
    /\ view.rotationY = 606

\* C14: after a gesture event other than stop, once no further event
\* arrives, the session eventually is back at stop with every revert timer
\* fired; and the session leaves stop only by rendering an update that a
\* gesture event queued.
C14_Reverts ==
    /\ (lastEvent \in Gestures \ {"stop"})
          ~> (currentGesture = "stop" /\ pending = <<>> /\ timers = <<>>)
    /\ [][(currentGesture = "stop" /\ currentGesture' # "stop")
            => \E i \in 1..Len(pending) : pending[i].by = "event"]_vars

C14_Witness ==
    /\ lastEvent = "move_left"
    /\ s.targetRotY = StopDecay(-PanStep)
    /\ currentGesture = "stop"
    /\ pending = <<>>
    /\ timers = <<>>

\* C15: once the cleanup has run no frame request is left, and until the
\* component is mounted again no frame runs: current zoom, pitch and yaw
\* and what was handed to the renderer do not change, at whatever point
\* of the glide the teardown came.
C15_TornDown ==
    [][~canvas.mounted =>
        /\ canvas.scheduled = {}
        /\ ~canvas'.mounted => (s' = s /\ view' = view /\ nFrames' = nFrames)]_vars

C15_Witness ==
    /\ ~canvas.mounted
    /\ nFrames = 2
    /\ s.zoom # s.targetZoom
    /\ canvas.requestRef = 3

\* C16: while the component is mounted exactly one geometry, material,
\* renderer, canvas element in the document and resize listener are held;
\* after the teardown none is, through every mount/unmount cycle.
C16_Resources ==
    LET n == IF canvas.mounted THEN 1 ELSE 0 IN
        /\ canvas.geometries = n
        /\ canvas.materials = n
        /\ canvas.renderers = n
        /\ canvas.listeners = n
        /\ LiveCanvases(canvas) = n

C16_Witness ==
    /\ canvas.mounts = 3
    /\ ~canvas.mounted
    /\ canvas.children = 1

\* C17: a resize changes the camera's aspect (projection) and the
\* renderer's size and nothing else: current and target zoom, pitch and
\* yaw, the active gesture and the queued updates stay as they are.
C17_ResizeOnly ==
    [][(canvas'.mounts = canvas.mounts /\ canvas'.size # canvas.size) =>
        /\ s' = s
        /\ currentGesture' = currentGesture
        /\ pending' = pending
        /\ view' = view
        /\ canvas' = [canvas EXCEPT !.aspect = canvas'.aspect,
                                    !.size = canvas'.size]]_vars

C17_Witness ==
    /\ canvas.size = <<1024, 768>>
    /\ canvas.aspect = <<1024, 768>>
    /\ currentGesture = "zoom_out"
    /\ s.zoom # s.targetZoom

\* C18: the branch of a particle is its index modulo the number of
\* branches, whatever was drawn; once the loop is done the branch sizes
\* differ by at most 1, and for 100 particles on 5 branches each is 20.
C18_Branches ==
    /\ field.i > 0 => field.particle.branch = (field.i - 1) % field.branches
    /\ field.i = field.count =>
        /\ \A a, b \in DOMAIN field.perBranch :
              Abs(field.perBranch[a] - field.perBranch[b]) <= 1
        /\ (field.count = 100 /\ field.branches = 5) =>
              \A b \in DOMAIN field.perBranch : field.perBranch[b] = 20

C18_Witness ==
    /\ field.count = 100
    /\ field.branches = 5
    /\ field.i = 100
    /\ field.perBranch[4] = 20

\* the largest magnitude of an offset along one axis: randomness * r
Reach(r) == RoundDiv(r * Randomness, 10000)

\* C19 (as claimed): every particle lies, in the x-z plane, no further
\* from the origin than radius * (1 + randomness) = 35 * 1.4 = 49,
\* whatever was drawn.
C19_Claim ==
    field.particle.x * field.particle.x + field.particle.z * field.particle.z
        <= (FieldRadius + Reach(FieldRadius)) * (FieldRadius + Reach(FieldRadius))

\* C19 (amended): for a particle at radius r on its branch, each of |x|
\* and |z| is at most r * (1 + randomness), and the distance from the
\* origin in the x-z plane is at most r * (1 + randomness * sqrt(2)),
\* whatever was drawn (up to two units of rounding).
C19_Scatter ==
    LET p == field.particle
        far == p.radius + (Reach(p.radius) * 14143) \div 10000 + 2
    IN  /\ Abs(p.x) <= p.radius + Reach(p.radius) + 1
        /\ Abs(p.z) <= p.radius + Reach(p.radius) + 1
        /\ p.x * p.x + p.z * p.z <= far * far

C19_Witness ==
    /\ field.i > 0
    /\ field.particle.radius = 3448
    /\ field.particle.x * field.particle.x + field.particle.z * field.particle.z
         > 5390 * 5390

\* C20: every slot of the position and colour arrays (3 * count each) is
\* written exactly once, in index order, so that the finished loop has
\* produced count positions and count colours; and every colour
\* component is in [0, 1].
C20_Arrays ==
    /\ DOMAIN field.posWrites = 0..(3 * field.count - 1)
    /\ DOMAIN field.colWrites = 0..(3 * field.count - 1)
    /\ \A k \in DOMAIN field.posWrites :
        /\ field.posWrites[k] = IF k < 3 * field.i THEN 1 ELSE 0
        /\ field.colWrites[k] = IF k < 3 * field.i THEN 1 ELSE 0
    /\ field.i <= field.count
    /\ \A k \in 1..3 : field.particle.color[k] \in 0..10000

C20_Witness ==
    /\ field.count = 100
    /\ field.i = field.count
    /\ field.posWrites[299] = 1
    /\ field.particle.radius = 3497
    /\ field.particle.color = <<2007, 6001, 9993>>

C22_Claim ==
    /\ view.cameraZ = s.zoom
    /\ view.rotationX = s.rotX
    /\ view.rotationY = s.rotY + (nFrames + 1) * Drift

\* C23 (as claimed): when two gesture events are queued before a render,
\* of different gestures, both other than the active one, the render
\* applies the effect of the first and then the effect of the second.
C23_Claim ==
    [][(/\ IsRender
        /\ Len(pending) = 2
        /\ pending[1].by = "event" /\ pending[2].by = "event"
        /\ pending[1].value \in Gestures \ {currentGesture}
        /\ pending[2].value \in Gestures \ {currentGesture, pending[1].value})
        => s' = GestureEffect(pending[2].value, GestureEffect(pending[1].value, s))]_vars

\* C24: a frame changes the current zoom, pitch and yaw and the rendered
\* transform only: no target, not the gesture, the queued updates or the
\* timers; every other step (event, timer expiry, render, time passing)
\* changes no current value and nothing rendered.
C24_OneWay ==
    [][/\ IsFrame =>
            /\ s'.targetZoom = s.targetZoom
            /\ s'.targetRotX = s.targetRotX
            /\ s'.targetRotY = s.targetRotY
            /\ currentGesture' = currentGesture
            /\ pending' = pending
            /\ timers' = timers
       /\ ~IsFrame =>
            /\ s'.zoom = s.zoom
            /\ s'.rotX = s.rotX
            /\ s'.rotY = s.rotY
            /\ view' = view]_vars

C24_Witness ==
    /\ nFrames >= 1
    /\ currentGesture = "stop"
    /\ lastEvent = "move_left"
    /\ s.targetRotY = StopDecay(-PanStep)
    /\ s.rotY = Smooth(0, -PanStep)

\* C25: a render into stop applies the stop effect (yaw target * 0.4,
\* pitch target 0.3) when the session was in another gesture, and changes
\* neither the targets nor the session when it was in stop already; the
\* timer callback, an event's arrival and the passing of time by
\* themselves change neither.
C25_StopOnce ==
    [][/\ (IsRender /\ NextGesture(pending) = "stop" /\ currentGesture # "stop") =>
            /\ currentGesture' = "stop"
            /\ s' = [s EXCEPT !.targetRotY = StopDecay(s.targetRotY),
                              !.targetRotX = RestingPitch]
       /\ (IsRender /\ NextGesture(pending) = "stop" /\ currentGesture = "stop") =>
            /\ currentGesture' = "stop"
            /\ s' = s
       /\ (~IsRender /\ ~IsFrame) =>
            /\ currentGesture' = currentGesture
            /\ s' = s]_vars

C25_Witness ==
    /\ nEvents = 2
    /\ lastEvent = "move_left"
    /\ currentGesture = "stop"
    /\ pending = <<>>
    /\ timers = <<>>
    /\ s.targetZoom = InitZoom - ZoomStep
    /\ s.targetRotY = StopDecay(-PanStep)

C27_Claim ==
    [][link'.cleanups # link.cleanups => link'.live = {}]_vars

\* C28 (as claimed): while the component is mounted and the session opened
\* last is open (it has neither closed nor errored), the interval that
\* streams its frames is active.
C28_Claim ==
    (/\ link.mounted
     /\ link.lastOpened # 0
     /\ link.sessions[Max(1, link.lastOpened)] = "open")
        => link.lastOpened \in link.intervals

====
